---- MODULE Spec2Model ----
(***************************************************************************)
(* Model of src/src/cashflow.py, the personal-finance cash-flow analyzer:  *)
(* the CSV loader and validator that run at import time, the aggregation   *)
(* functions, the projections and the interactive menu loop.               *)
(*                                                                         *)
(* Numbers.  Amounts are integers (a currency's smallest unit).  A value   *)
(* that the code obtains by a division (a mean, a runway, a required       *)
(* monthly saving) is an exact fraction [num, den] with den > 0; floating  *)
(* point rounding is not modelled.  A percentage is kept as an integer     *)
(* number of hundredths of a percent, which is what round(2) leaves.       *)
(* A month label "YYYY-MM" is the pair <<year, month>>.                    *)
(***************************************************************************)
EXTENDS Integers, Sequences, FiniteSets, TLC

VARIABLES
    pc,                 \* position of the script / of main_menu
    df,                 \* the module-level DataFrame (or None)
    enc,                \* index of the loader's `for encoding` loop
    delim,              \* index of the loader's `for delimiter` loop
    reads,              \* history: the (encoding, delimiter) of every read_csv call
    lastRead,           \* outcome of the latest read_csv call
    req,                \* index of the alias loop over the required columns
    column_mapping,     \* the loader's column_mapping dict
    error,              \* what the except handlers printed ("" when nothing)
    monthly_cashflow,   \* module-level monthly_cashflow
    total_savings,      \* module-level total_savings
    runway,             \* module-level runway
    called,             \* history: the module-level analysis calls made so far
    choice,             \* the latest answer to "Enter your choice (0-7)"
    out                 \* what the latest menu action computed and printed

vars == <<pc, df, enc, delim, reads, lastRead, req, column_mapping, error,
          monthly_cashflow, total_savings, runway, called, choice, out>>

(***************************************************************************)
(* Bounds and input sets                                                   *)
(***************************************************************************)
MaxLen == 3             \* transactions in a ledger of the analysis specification
MaxMonthsAhead == 3     \* largest answer to "How many months to project?"

Date(y, m, d) == [year |-> y, month |-> m, day |-> d]

\* Two months of different years, the later one with the smaller month number.
Dates == {Date(2024, 2, 10), Date(2025, 1, 5)}
Categories == {"Food", "Job", "Rent"}
Amounts == {-1, 0, 1}

Transactions == [date : Dates, category : Categories, amount : Amounts]
Ledgers == UNION {[1..n -> Transactions] : n \in 1..MaxLen}

(***************************************************************************)
(* Generic helpers                                                         *)
(***************************************************************************)
Range(s) == {s[i] : i \in DOMAIN s}

RECURSIVE SumSeq(_)
SumSeq(s) == IF s = <<>> THEN 0 ELSE Head(s) + SumSeq(Tail(s))

\* Series.cumsum()
RECURSIVE CumSum(_)
CumSum(s) ==
    IF s = <<>> THEN <<>>
    ELSE LET front == CumSum(SubSeq(s, 1, Len(s) - 1))
         IN  Append(front, (IF front = <<>> THEN 0 ELSE front[Len(front)]) + s[Len(s)])

Column(rows, name) == [i \in DOMAIN rows |-> rows[i][name]]

RECURSIVE GCD(_, _)
GCD(a, b) == IF b = 0 THEN a ELSE GCD(b, a % b)

\* An exact fraction num/den in lowest terms with den > 0 (d # 0).
Frac(n, d) ==
    LET an == IF n < 0 THEN 0 - n ELSE n
        ad == IF d < 0 THEN 0 - d ELSE d
        g  == GCD(an, ad)
        sg == IF d < 0 THEN 0 - 1 ELSE 1
    IN  [num |-> sg * (n \div g), den |-> ad \div g]
FracOfInt(n) == [num |-> n, den |-> 1]
FracEq(a, b) == a.num * b.den = b.num * a.den
FracLeq(a, b) == a.num * b.den <= b.num * a.den
FracAdd(a, b) == Frac(a.num * b.den + b.num * a.den, a.den * b.den)
FracSub(a, b) == Frac(a.num * b.den - b.num * a.den, a.den * b.den)
\* a / b for b # 0
FracDiv(a, b) == Frac(a.num * b.den, a.den * b.num)

\* Series.mean() of a non-empty integer column
Mean(table, name) == Frac(SumSeq(Column(table, name)), Len(table))

DateLess(a, b) ==
    \/ a.year < b.year
    \/ a.year = b.year /\ a.month < b.month
    \/ a.year = b.year /\ a.month = b.month /\ a.day < b.day

(***************************************************************************)
(* calculate_monthly_cashflow                                              *)
(***************************************************************************)
\* df['date'].dt.to_period('M')
ToPeriod(date) == [year |-> date.year, month |-> date.month]

PeriodLess(p, q) == p.year < q.year \/ (p.year = q.year /\ p.month < q.month)

\* result['month'].astype(str): the label "YYYY-MM"
PeriodStr(p) == <<p.year, p.month>>

\* groupby sorts the group keys ascending
RECURSIVE SortedPeriods(_)
SortedPeriods(S) ==
    IF S = {} THEN <<>>
    ELSE LET lo == CHOOSE p \in S : \A q \in S \ {p} : PeriodLess(p, q)
         IN  <<lo>> \o SortedPeriods(S \ {lo})

\* the 'amount' values of one group, in row order
GroupAmounts(rows, p) ==
    LET Keep(r) == r["month"] = p
    IN  Column(SelectSeq(rows, Keep), "amount")

Positive(x) == x > 0
Negative(x) == x < 0

MonthlyRow_expensesNotNegated(p, x) ==
    [month        |-> PeriodStr(p),
     income       |-> SumSeq(SelectSeq(x, Positive)),
     expenses     |-> SumSeq(SelectSeq(x, Negative)),
     net_cashflow |-> SumSeq(x)]

MonthlyRow_netOfIncomeOnly(p, x) ==
    [month        |-> PeriodStr(p),
     income       |-> SumSeq(SelectSeq(x, Positive)),
     expenses     |-> 0 - SumSeq(SelectSeq(x, Negative)),
     net_cashflow |-> SumSeq(SelectSeq(x, Positive))]

\* the three named aggregations of one group x
MonthlyRow(p, x) ==
    [month        |-> PeriodStr(p),
     income       |-> SumSeq(SelectSeq(x, Positive)),
     expenses     |-> 0 - SumSeq(SelectSeq(x, Negative)),
     net_cashflow |-> SumSeq(x)]

\* df['month'] = ...: the caller's table gains (or overwrites) the column
WithMonthColumn(d) ==
    [d EXCEPT
        !.columns = IF "month" \in Range(d.columns) THEN d.columns
                    ELSE Append(d.columns, "month"),
        !.rows = [i \in DOMAIN d.rows |->
                    [c \in DOMAIN d.rows[i] \cup {"month"} |->
                        IF c = "month" THEN ToPeriod(d.rows[i]["date"])
                        ELSE d.rows[i][c]]]]

calculate_monthly_cashflow(d) ==
    LET rows   == WithMonthColumn(d).rows
        groups == SortedPeriods({rows[i]["month"] : i \in DOMAIN rows})
    IN  [i \in DOMAIN groups |-> MonthlyRow(groups[i], GroupAmounts(rows, groups[i]))]

(***************************************************************************)
(* calculate_total_savings                                                 *)
(***************************************************************************)
\* df.sort_values('date'): ascending; rows of equal date keep their order
RECURSIVE SortByDate(_)
SortByDate(rows) ==
    IF rows = <<>> THEN <<>>
    ELSE LET i == CHOOSE k \in DOMAIN rows :
                    /\ \A j \in DOMAIN rows : ~DateLess(rows[j]["date"], rows[k]["date"])
                    /\ \A j \in 1..(k - 1) : DateLess(rows[k]["date"], rows[j]["date"])
             rest == [j \in 1..(Len(rows) - 1) |-> IF j < i THEN rows[j] ELSE rows[j + 1]]
         IN  <<rows[i]>> \o SortByDate(rest)

\* Python's max(0, x)
Max0(x) == IF x > 0 THEN x ELSE 0

Floor_none(x) == x

\* the floor applied to the final cumulative value
FloorAtZero(x) == Max0(x)

calculate_total_savings(d) ==
    LET df_sorted      == SortByDate(d.rows)
        cumulative_net == CumSum(Column(df_sorted, "amount"))
    IN  FloorAtZero(cumulative_net[Len(cumulative_net)])

(***************************************************************************)
(* calculate_emergency_runway                                              *)
(***************************************************************************)
Infinity == [inf |-> TRUE, num |-> 0, den |-> 1]
Finite(n, d) == [inf |-> FALSE, num |-> n, den |-> d]

calculate_emergency_runway_guardOnSavings(monthly, savings) ==
    LET avg_monthly_expenses == Mean(monthly, "expenses")
    IN  IF savings = 0 THEN Infinity
        ELSE Finite(savings * avg_monthly_expenses.den,
                    IF avg_monthly_expenses.num = 0 THEN 1 ELSE avg_monthly_expenses.num)

calculate_emergency_runway(monthly, savings) ==
    LET avg_monthly_expenses == Mean(monthly, "expenses")
    IN  IF avg_monthly_expenses.num = 0 THEN Infinity
        ELSE Finite(savings * avg_monthly_expenses.den, avg_monthly_expenses.num)

(***************************************************************************)
(* calculate_category_breakdown                                            *)
(***************************************************************************)
RoundHalfEven_truncates(n, d) == n \div d

\* numpy round(2) of n/d percent, d > 0, in hundredths of a percent:
\* n/d is rounded to the nearest integer, a tie to the even neighbour
RoundHalfEven(n, d) ==
    LET q == n \div d
        r == n % d
    IN  IF 2 * r < d THEN q
        ELSE IF 2 * r > d THEN q + 1
        ELSE IF q % 2 = 0 THEN q ELSE q + 1

CategoryTotal(rows, c) ==
    LET Keep(r) == r["category"] = c
    IN  SumSeq(Column(SelectSeq(rows, Keep), "amount"))

\* groupby('category')['amount'].sum().sort_values(): ascending by total,
\* equal totals in the group-key (alphabetical) order groupby produced.
\* Categories are compared through their position in CategoryOrder.
CategoryOrder == <<"Food", "Job", "Rent">>
CatIndex(c) == CHOOSE i \in DOMAIN CategoryOrder : CategoryOrder[i] = c

RECURSIVE SortedTotals(_, _)
SortedTotals(rows, S) ==
    IF S = {} THEN <<>>
    ELSE LET lo == CHOOSE c \in S : \A e \in S \ {c} :
                      \/ CategoryTotal(rows, c) < CategoryTotal(rows, e)
                      \/ /\ CategoryTotal(rows, c) = CategoryTotal(rows, e)
                         /\ CatIndex(c) < CatIndex(e)
         IN  <<[category |-> lo, total |-> CategoryTotal(rows, lo)]>>
                \o SortedTotals(rows, S \ {lo})

\* category_totals[category_totals < 0]
IsExpense(t) == t.total < 0

calculate_category_breakdown(d) ==
    LET category_totals == SortedTotals(d.rows, {d.rows[i]["category"] : i \in DOMAIN d.rows})
        expenses_only   == SelectSeq(category_totals, IsExpense)
        total_expenses  == SumSeq([i \in DOMAIN expenses_only |-> 0 - expenses_only[i].total])
    IN  [i \in DOMAIN expenses_only |->
            [Category   |-> expenses_only[i].category,
             Amount     |-> 0 - expenses_only[i].total,
             Percentage |-> RoundHalfEven((0 - expenses_only[i].total) * 10000,
                                          total_expenses)]]

(***************************************************************************)
(* Values of the script's globals                                          *)
(***************************************************************************)
NoTable == [kind |-> "none", columns |-> <<>>, rows |-> <<>>]
Table(cols, rws) == [kind |-> "table", columns |-> cols, rows |-> rws]

Printed(k, v) == [kind |-> k, val |-> v]
Nothing == Printed("nothing", 0)

(***************************************************************************)
(* The loader, lines 13-114                                                *)
(***************************************************************************)
encodings == <<"utf-8", "latin-1", "iso-8859-1", "cp1252">>
delimiters == <<",", ";", "tab", "|">>

ComboAt_delimiterOuter(e, d) == <<encodings[d], delimiters[e]>>

\* the arguments of the read_csv call at loop position (e, d)
ComboAt(e, d) == <<encodings[e], delimiters[d]>>

\* A parsed file: its header row and its rows of text cells ("" is an empty
\* cell, which read_csv gives as NaN).
RowOf(headers, cells) ==
    [h \in Range(headers) |-> cells[CHOOSE i \in DOMAIN headers : headers[i] = h]]
Parsed(headers, lines) ==
    Table(headers, [i \in DOMAIN lines |-> RowOf(headers, lines[i])])

ExampleFile ==
    Parsed(<<"Date", "Category", "Amount">>,
           << <<"2024-01-05", "Job", "1000">>, <<"2024-01-20", "Food", "-200">>,
              <<"2024-02-10", "Job", "1000">>, <<"2024-02-15", "Rent", "-500">> >>)
AliasFile ==
    Parsed(<<"trans_date", "type", "value">>, << <<"2025-01-05", "Job", "1000">> >>)
NoAmountFile ==
    Parsed(<<"date", "category", "sum">>, << <<"2024-02-10", "Rent", "-500">> >>)
EmptyColumnFile ==
    Parsed(<<"date", "category", "amount", "notes">>,
           << <<"2024-02-15", "Rent", "-500", "">>, <<"2024-01-05", "Job", "1000", "">> >>)
BadDateFile ==
    Parsed(<<"date", "category", "amount">>, << <<"soon", "Job", "1000">> >>)
BadAmountFile ==
    Parsed(<<"date", "category", "amount">>, << <<"2024-01-05", "Job", "lots">> >>)

ParsedFiles == {ExampleFile, AliasFile, NoAmountFile, EmptyColumnFile,
                BadDateFile, BadAmountFile}
EmptyTable == Table(<<>>, <<>>)

\* df.empty
IsEmpty(d) == d.rows = <<>> \/ d.columns = <<>>

\* What one read_csv call of the grid can do: return a table, return an empty
\* table, raise one of the exceptions line 28 catches, or raise another one
\* (FileNotFoundError, or any other such as EmptyDataError).
GridOutcomes == {"table", "empty", "decode_error", "parse_error", "not_found", "other_error"}

\* What one read_csv call of the fallback loop (line 37) can do.  The keyword
\* error_bad_lines exists up to pandas 1.5 and is a TypeError from 2.0 on, so
\* which of these happen depends on the installed pandas.
FallbackOutcomes == {"table", "empty", "decode_error", "parse_error", "not_found", "type_error"}

\* the except clauses of lines 101-109: what is printed for an exception
Report(exc) ==
    CASE exc = "not_found" -> "Error: File not found. Please check the path and try again."
      [] exc = "no_table"  -> "Error: Could not read CSV file."
      [] exc = "parse_error" -> "Error: parser error"
      [] exc = "missing_date" -> "Error: Required column 'date' is missing."
      [] exc = "missing_category" -> "Error: Required column 'category' is missing."
      [] exc = "missing_amount" -> "Error: Required column 'amount' is missing."
      [] exc = "invalid_date" -> "Error: Invalid date values found."
      [] exc = "invalid_amount" -> "Error: Invalid 'amount' values found."
      [] OTHER -> "Unexpected error"

loaderRest == <<monthly_cashflow, total_savings, runway, called, choice, out>>

\* an exception that leaves the try block: the handler prints and sets df = None
Fail(exc) ==
    /\ error' = Report(exc)
    /\ df' = NoTable
    /\ pc' = "check_df"

\* lines 21-31: one read_csv call of the nested loops and the loop control after it
GridAttempt ==
    /\ pc = "grid"
    /\ \E o \in GridOutcomes, t \in ParsedFiles :
        /\ reads' = Append(reads, ComboAt(enc, delim))
        /\ lastRead' = o
        /\ IF o \in {"not_found", "other_error"}
           THEN Fail(o) /\ UNCHANGED <<enc, delim>>
           ELSE /\ df' = CASE o = "table" -> t
                           [] o = "empty" -> EmptyTable
                           [] OTHER -> df
                /\ error' = error
                /\ IF o = "table"
                   THEN pc' = "after_grid" /\ UNCHANGED <<enc, delim>>
                   ELSE IF delim < Len(delimiters)
                   THEN pc' = "grid" /\ delim' = delim + 1 /\ enc' = enc
                   ELSE IF enc < Len(encodings)
                   THEN pc' = "grid" /\ delim' = 1 /\ enc' = enc + 1
                   ELSE pc' = "after_grid" /\ UNCHANGED <<enc, delim>>
    /\ UNCHANGED <<req, column_mapping>>
    /\ UNCHANGED loaderRest

\* line 34: is the fallback loop needed?
CheckGrid ==
    /\ pc = "after_grid"
    /\ IF df.kind = "none" \/ IsEmpty(df)
       THEN pc' = "fallback" /\ enc' = 1
       ELSE pc' = "loaded" /\ enc' = enc
    /\ UNCHANGED <<df, delim, reads, lastRead, req, column_mapping, error>>
    /\ UNCHANGED loaderRest

\* lines 35-42: one read_csv call of the fallback loop
FallbackAttempt ==
    /\ pc = "fallback"
    /\ \E o \in FallbackOutcomes, t \in ParsedFiles :
        /\ reads' = Append(reads, <<encodings[enc], "default">>)
        /\ lastRead' = o
        /\ IF o \in {"not_found", "parse_error", "type_error"}
           THEN Fail(o) /\ enc' = enc
           ELSE /\ df' = CASE o = "table" -> t
                           [] o = "empty" -> EmptyTable
                           [] OTHER -> df
                /\ error' = error
                /\ IF o = "table" \/ enc = Len(encodings)
                   THEN pc' = "loaded" /\ enc' = enc
                   ELSE pc' = "fallback" /\ enc' = enc + 1
    /\ UNCHANGED <<delim, req, column_mapping>>
    /\ UNCHANGED loaderRest

\* df.columns.str.lower().str.strip() on the headers of the files above
Normalize(h) ==
    CASE h = "Date" -> "date"
      [] h = "Category" -> "category"
      [] h = "Amount" -> "amount"
      [] OTHER -> h

\* line 48: df.dropna(axis=1, how='all')
DropEmptyColumns(d) ==
    LET Kept(h) == \E i \in DOMAIN d.rows : d.rows[i][h] # ""
        cols == SelectSeq(d.columns, Kept)
    IN  Table(cols, [i \in DOMAIN d.rows |-> [h \in Range(cols) |-> d.rows[i][h]]])

\* line 51
NormalizeColumns(d) ==
    LET Raw(n) == CHOOSE h \in Range(d.columns) : Normalize(h) = n
        cols == [i \in DOMAIN d.columns |-> Normalize(d.columns[i])]
    IN  Table(cols, [i \in DOMAIN d.rows |-> [n \in Range(cols) |-> d.rows[i][Raw(n)]]])

\* lines 44-53
CheckLoaded ==
    /\ pc = "loaded"
    /\ IF df.kind = "none" \/ IsEmpty(df)
       THEN Fail("no_table") /\ UNCHANGED <<req, column_mapping>>
       ELSE /\ df' = NormalizeColumns(DropEmptyColumns(df))
            /\ req' = 1
            /\ column_mapping' = {}
            /\ pc' = "resolve"
            /\ error' = error
    /\ UNCHANGED <<enc, delim, reads, lastRead>>
    /\ UNCHANGED loaderRest

required_columns == <<"date", "category", "amount">>

column_aliases(required_col) ==
    CASE required_col = "date" -> <<"date", "transaction_date", "trans_date">>
      [] required_col = "category" -> <<"category", "description", "type", "transaction_type">>
      [] required_col = "amount" -> <<"amount", "value", "transaction_amount">>

\* answers to "Enter the actual column name for ..."
PromptAnswers == {"", "sum", "nosuch"}

\* column_mapping[key] = value on a dict kept as a set of <<key, value>>
DictSet(dict, key, value) == {kv \in dict : kv[1] # key} \cup {<<key, value>>}

\* lines 67-82: one iteration of the loop over column_aliases
ResolveColumn ==
    /\ pc = "resolve"
    /\ LET required_col == required_columns[req]
           aliases == column_aliases(required_col)
           hits == {i \in DOMAIN aliases : aliases[i] \in Range(df.columns)}
           Advance == /\ req' = req + 1
                      /\ pc' = IF req = Len(required_columns) THEN "validate" ELSE "resolve"
                      /\ UNCHANGED <<df, error>>
       IN  IF hits # {}
           THEN LET alias == aliases[CHOOSE i \in hits : \A j \in hits : i <= j]
                IN  /\ column_mapping' = IF alias # required_col
                                         THEN DictSet(column_mapping, alias, required_col)
                                         ELSE column_mapping
                    /\ Advance
           ELSE \E alt_col \in PromptAnswers :
                    IF alt_col # "" /\ alt_col \in Range(df.columns)
                    THEN /\ column_mapping' = DictSet(column_mapping, alt_col, required_col)
                         /\ Advance
                    ELSE /\ Fail("missing_" \o required_col)
                         /\ UNCHANGED <<req, column_mapping>>
    /\ UNCHANGED <<enc, delim, reads, lastRead>>
    /\ UNCHANGED loaderRest

\* line 86: df.rename(columns=column_mapping)
Renamed(h, dict) ==
    IF \E kv \in dict : kv[1] = h THEN (CHOOSE kv \in dict : kv[1] = h)[2] ELSE h
Rename(d, dict) ==
    LET Old(n) == CHOOSE h \in Range(d.columns) : Renamed(h, dict) = n
        cols == [i \in DOMAIN d.columns |-> Renamed(d.columns[i], dict)]
    IN  Table(cols, [i \in DOMAIN d.rows |-> [n \in Range(cols) |-> d.rows[i][Old(n)]]])

\* pd.to_datetime(errors='coerce') on the date texts of the files above:
\* a text outside this table becomes NaT
DateTexts ==
    [t \in {"2024-01-05", "2024-01-20", "2024-02-10", "2024-02-15", "2025-01-05"} |->
        CASE t = "2024-01-05" -> Date(2024, 1, 5)
          [] t = "2024-01-20" -> Date(2024, 1, 20)
          [] t = "2024-02-10" -> Date(2024, 2, 10)
          [] t = "2024-02-15" -> Date(2024, 2, 15)
          [] t = "2025-01-05" -> Date(2025, 1, 5)]
IsNaT(text) == text \notin DOMAIN DateTexts

\* pd.to_numeric(errors='coerce') on the amount texts of the files above:
\* a text outside this table becomes NaN
NumberTexts ==
    [t \in {"1000", "-200", "-500"} |->
        CASE t = "1000" -> 1000
          [] t = "-200" -> 0 - 200
          [] t = "-500" -> 0 - 500]
IsNaN(text) == text \notin DOMAIN NumberTexts

Count(seq, x) == Cardinality({i \in DOMAIN seq : seq[i] = x})

\* lines 85-99
Validate ==
    /\ pc = "validate"
    /\ LET renamed == IF column_mapping # {} THEN Rename(df, column_mapping) ELSE df
       IN  IF Count(renamed.columns, "date") # 1 \/ Count(renamed.columns, "amount") # 1
           THEN Fail("key_error")
           ELSE IF \E i \in DOMAIN renamed.rows : IsNaT(renamed.rows[i]["date"])
           THEN Fail("invalid_date")
           ELSE IF \E i \in DOMAIN renamed.rows : IsNaN(renamed.rows[i]["amount"])
           THEN Fail("invalid_amount")
           ELSE /\ df' = [renamed EXCEPT !.rows =
                            [i \in DOMAIN renamed.rows |->
                                [renamed.rows[i] EXCEPT
                                    !["date"] = DateTexts[renamed.rows[i]["date"]],
                                    !["amount"] = NumberTexts[renamed.rows[i]["amount"]]]]]
                /\ error' = error
                /\ pc' = "check_df"
    /\ UNCHANGED <<enc, delim, reads, lastRead, req, column_mapping>>
    /\ UNCHANGED loaderRest

CannotProceed_never(d) == FALSE

\* line 112: if df is None
CannotProceed(d) == d.kind = "none"

\* lines 112-114
ExitIfNoData ==
    /\ pc = "check_df"
    /\ pc' = IF CannotProceed(df) THEN "exited" ELSE "monthly"
    /\ UNCHANGED <<df, enc, delim, reads, lastRead, req, column_mapping, error>>
    /\ UNCHANGED loaderRest

(***************************************************************************)
(* The script after the loader: module-level calls and main_menu           *)
(***************************************************************************)
\* line 184: monthly_cashflow = calculate_monthly_cashflow(df).
\* Subscripting None raises TypeError, which nothing catches.
CallMonthly ==
    /\ pc = "monthly"
    /\ called' = called \cup {"calculate_monthly_cashflow"}
    /\ IF df.kind = "none"
       THEN /\ pc' = "crashed"
            /\ UNCHANGED <<df, monthly_cashflow>>
       ELSE /\ monthly_cashflow' = calculate_monthly_cashflow(df)
            /\ df' = WithMonthColumn(df)
            /\ pc' = "savings"
    /\ UNCHANGED <<enc, delim, reads, lastRead, req, column_mapping, error,
                   total_savings, runway, choice, out>>

\* lines 207-212
CallSavings ==
    /\ pc = "savings"
    /\ IF df.kind # "none"
       THEN /\ total_savings' = calculate_total_savings(df)
            /\ called' = called \cup {"calculate_total_savings"}
            /\ pc' = "runway"
       ELSE /\ total_savings' = 0
            /\ pc' = "exited"
            /\ UNCHANGED called
    /\ UNCHANGED <<df, enc, delim, reads, lastRead, req, column_mapping, error,
                   monthly_cashflow, runway, choice, out>>

\* lines 234-235
CallRunway ==
    /\ pc = "runway"
    /\ runway' = calculate_emergency_runway(monthly_cashflow, total_savings)
    /\ called' = called \cup {"calculate_emergency_runway"}
    /\ pc' = "main"
    /\ UNCHANGED <<df, enc, delim, reads, lastRead, req, column_mapping, error,
                   monthly_cashflow, total_savings, choice, out>>

\* line 497 and lines 356-358: main_menu() is entered and prints its banner
EnterMenu ==
    /\ pc = "main"
    /\ pc' = "menu"
    /\ UNCHANGED <<df, enc, delim, reads, lastRead, req, column_mapping, error,
                   monthly_cashflow, total_savings, runway, called, choice, out>>

menuFrame == <<df, enc, delim, reads, lastRead, req, column_mapping, error,
               monthly_cashflow, total_savings, runway>>

\* choice '7', lines 482-487
Choose7 ==
    /\ pc = "menu"
    /\ choice' = "7"
    /\ out' = Printed("breakdown", calculate_category_breakdown(df))
    /\ pc' = "menu"
    /\ UNCHANGED <<called>>
    /\ UNCHANGED menuFrame

(***************************************************************************)
(* Time: datetime.now() and the target date the user types                 *)
(***************************************************************************)
Stamp(y, m, d, h) == [year |-> y, month |-> m, day |-> d, hour |-> h]

\* the moments datetime.now() returns
Nows == {Stamp(2026, 11, 1, 12), Stamp(2026, 12, 15, 0)}

\* pd.to_datetime on the answers to "Enter your target date"; a text outside
\* this table raises ValueError
StampTexts ==
    [t \in {"2026-10-31", "2026-11-01 18:00", "2026-11-02", "2026-12-15", "2027-02-01"} |->
        CASE t = "2026-10-31" -> Stamp(2026, 10, 31, 0)
          [] t = "2026-11-01 18:00" -> Stamp(2026, 11, 1, 18)
          [] t = "2026-11-02" -> Stamp(2026, 11, 2, 0)
          [] t = "2026-12-15" -> Stamp(2026, 12, 15, 0)
          [] t = "2027-02-01" -> Stamp(2027, 2, 1, 0)]
TargetAnswers == DOMAIN StampTexts \cup {"someday"}

IsLeap(y) == (y % 4 = 0 /\ y % 100 # 0) \/ y % 400 = 0
DaysBeforeMonth(y, m) ==
    <<0, 31, 59, 90, 120, 151, 181, 212, 243, 273, 304, 334>>[m]
        + (IF m > 2 /\ IsLeap(y) THEN 1 ELSE 0)
\* datetime.toordinal: days of the proleptic Gregorian calendar
Ordinal(t) ==
    (t.year - 1) * 365 + ((t.year - 1) \div 4) - ((t.year - 1) \div 100)
        + ((t.year - 1) \div 400) + DaysBeforeMonth(t.year, t.month) + t.day

\* (target - now).days: a timedelta's days are the whole days, rounded down
TimedeltaDays(target, now) ==
    Ordinal(target) - Ordinal(now) - (IF target.hour < now.hour THEN 1 ELSE 0)

\* the label of the month k months after the month labelled <<y, m>>
AddMonths(label, k) ==
    LET z == label[1] * 12 + (label[2] - 1) + k
    IN  <<z \div 12, (z % 12) + 1>>

(***************************************************************************)
(* project_future_cashflow, plan_savings_goal, run_what_if_scenario        *)
(***************************************************************************)
\* hundredths of a day in the divisor 30.44 of line 267
DaysPerMonthX100 == 3044

\* pd.to_datetime(current_month) + pd.offsets.MonthEnd(i): from the first day
\* of the current month, the i-th month end is the end of month i - 1 ahead
MonthEndLabel(now, i) == AddMonths(<<now.year, now.month>>, i - 1)

\* current_date + pd.DateOffset(months=i)
DateOffsetLabel(now, i) == AddMonths(<<now.year, now.month>>, i)

project_future_cashflow(monthly, months_ahead, required_savings, now) ==
    IF monthly = <<>> THEN <<>>
    ELSE LET avg_income   == Mean(monthly, "income")
             avg_expenses == Mean(monthly, "expenses")
         IN  [i \in 1..months_ahead |->
                [month        |-> MonthEndLabel(now, i),
                 income       |-> avg_income,
                 expenses     |-> FracAdd(avg_expenses, required_savings),
                 net_cashflow |-> FracSub(avg_income,
                                          FracAdd(avg_expenses, required_savings))]]

plan_savings_goal(goal_amount, target_date_str, monthly, now) ==
    IF target_date_str \notin DOMAIN StampTexts
    THEN [kind |-> "raise", exc |-> "ValueError"]
    ELSE LET target_date    == StampTexts[target_date_str]
             days_to_target == TimedeltaDays(target_date, now)
         IN  IF days_to_target <= 0
             THEN [kind |-> "error", error |-> "Target date is in the past"]
             ELSE LET months_to_target == Frac(days_to_target * 100, DaysPerMonthX100)
                      required_monthly_savings ==
                          FracDiv(FracOfInt(goal_amount), months_to_target)
                      avg_net_cashflow == Mean(monthly, "net_cashflow")
                  IN  [kind |-> "plan",
                       required_monthly_savings |-> required_monthly_savings,
                       achievable |-> FracLeq(required_monthly_savings, avg_net_cashflow),
                       months_to_target |-> months_to_target,
                       updated_cashflow |->
                           project_future_cashflow(
                               monthly, months_to_target.num \div months_to_target.den,
                               required_monthly_savings, now)]

\* Series.cumsum() of fractions
RECURSIVE CumSumFrac(_)
CumSumFrac(s) ==
    IF s = <<>> THEN <<>>
    ELSE LET front == CumSumFrac(SubSeq(s, 1, Len(s) - 1))
         IN  Append(front, IF front = <<>> THEN s[Len(s)]
                           ELSE FracAdd(front[Len(front)], s[Len(s)]))

\* lines 328-336
Adjusted(scenario_type, avg_income, avg_expenses, scenario_amount) ==
    CASE scenario_type = "decrease_spending" ->
            [income |-> avg_income,
             expenses |-> FracSub(avg_expenses, FracOfInt(scenario_amount))]
      [] scenario_type = "increase_savings" ->
            [income |-> avg_income,
             expenses |-> FracAdd(avg_expenses, FracOfInt(scenario_amount))]
      [] OTHER ->
            [income |-> FracAdd(avg_income, Frac(scenario_amount, 2)),
             expenses |-> FracSub(avg_expenses, Frac(scenario_amount, 2))]

\* With no projected month, pd.DataFrame([]) has no column and line 348's
\* result_df['net_cashflow'] raises KeyError.
run_what_if_scenario(monthly, months_projection, scenario_type, scenario_amount, now) ==
    LET a == Adjusted(scenario_type, Mean(monthly, "income"),
                      Mean(monthly, "expenses"), scenario_amount)
        projections ==
            [i \in 1..months_projection |->
                [month        |-> DateOffsetLabel(now, i),
                 income       |-> a.income,
                 expenses     |-> a.expenses,
                 net_cashflow |-> FracSub(a.income, a.expenses),
                 cumulative_savings |-> FracOfInt(0)]]
        cumulative == CumSumFrac(Column(projections, "net_cashflow"))
    IN  IF projections = <<>>
        THEN [kind |-> "raise", exc |-> "KeyError"]
        ELSE [kind |-> "table",
              rows |-> [i \in DOMAIN projections |->
                          [projections[i] EXCEPT !.cumulative_savings = cumulative[i]]]]

(***************************************************************************)
(* main_menu, lines 353-494                                                *)
(***************************************************************************)
\* An answer to a numeric prompt: int()/float() of a text that is no number
\* raises ValueError.
Number(n) == [numeric |-> TRUE, value |-> n]
NotANumber == [numeric |-> FALSE, value |-> 0]

MonthAnswers == {Number(n) : n \in (0 - 1)..MaxMonthsAhead} \cup {NotANumber}
GoalAnswers == {Number(1200), Number(0), NotANumber}
AmountAnswers == {Number(100), Number(0 - 50), NotANumber}
ScenarioAnswers == {"1", "2", "3", "9"}

\* scenario_map.get(scenario_choice, 'decrease_spending')
ScenarioType(scenario_choice) ==
    CASE scenario_choice = "1" -> "decrease_spending"
      [] scenario_choice = "2" -> "increase_savings"
      [] scenario_choice = "3" -> "both"
      [] OTHER -> "decrease_spending"

\* except ValueError: print("Invalid input ...") and back to the prompt
InvalidInput(c) == Printed("invalid_input", c)

\* choice '1', lines 373-375
Choose1 ==
    /\ pc = "menu"
    /\ choice' = "1"
    /\ out' = Printed("monthly", monthly_cashflow)
    /\ pc' = "menu"
    /\ UNCHANGED <<called>>
    /\ UNCHANGED menuFrame

\* choice '2', lines 377-379
Choose2 ==
    /\ pc = "menu"
    /\ choice' = "2"
    /\ out' = Printed("savings", total_savings)
    /\ pc' = "menu"
    /\ UNCHANGED <<called>>
    /\ UNCHANGED menuFrame

\* choice '3', lines 381-385
Choose3 ==
    /\ pc = "menu"
    /\ choice' = "3"
    /\ out' = Printed("runway", [runway |-> runway, savings |-> total_savings,
                                 avg_expenses |-> Mean(monthly_cashflow, "expenses")])
    /\ pc' = "menu"
    /\ UNCHANGED <<called>>
    /\ UNCHANGED menuFrame

\* choice '4', lines 387-407
Choose4 ==
    /\ pc = "menu"
    /\ choice' = "4"
    /\ pc' = "menu"
    /\ \E goal \in GoalAnswers, target_date \in TargetAnswers, now \in Nows :
          IF ~goal.numeric
          THEN out' = InvalidInput("4")
          ELSE LET savings_plan ==
                       plan_savings_goal(goal.value, target_date, monthly_cashflow, now)
               IN  out' = IF savings_plan.kind = "raise" THEN InvalidInput("4")
                          ELSE Printed("goal", [goal_amount |-> goal.value,
                                                target_date |-> target_date,
                                                now |-> now,
                                                savings_plan |-> savings_plan])
    /\ UNCHANGED <<called>>
    /\ UNCHANGED menuFrame

\* choice '5', lines 409-438
Choose5 ==
    /\ pc = "menu"
    /\ choice' = "5"
    /\ pc' = "menu"
    /\ \E months \in MonthAnswers, now \in Nows :
          IF ~months.numeric
          THEN out' = InvalidInput("5")
          ELSE LET avg_income   == Mean(monthly_cashflow, "income")
                   avg_expenses == Mean(monthly_cashflow, "expenses")
                   net          == FracSub(avg_income, avg_expenses)
                   cumulative   == CumSumFrac([i \in 1..months.value |-> net])
               IN  out' = Printed("projection",
                            [months |-> months.value,
                             now |-> now,
                             rows |-> [i \in 1..months.value |->
                                         [month |-> DateOffsetLabel(now, i),
                                          income |-> avg_income,
                                          expenses |-> avg_expenses,
                                          net_cashflow |-> net,
                                          cumulative_savings |-> cumulative[i]]],
                             final |-> IF months.value < 1 THEN FracOfInt(0)
                                       ELSE cumulative[months.value]])
    /\ UNCHANGED <<called>>
    /\ UNCHANGED menuFrame

\* choice '6', lines 440-480.  The KeyError of run_what_if_scenario is no
\* ValueError: it leaves main_menu and ends the process with a traceback.
Choose6 ==
    /\ pc = "menu"
    /\ choice' = "6"
    /\ \E months \in MonthAnswers, scenario_choice \in ScenarioAnswers,
          amount \in AmountAnswers, now \in Nows :
          IF ~months.numeric \/ ~amount.numeric
          THEN out' = InvalidInput("6") /\ pc' = "menu"
          ELSE LET scenario_type == ScenarioType(scenario_choice)
                   scenario_cf == run_what_if_scenario(monthly_cashflow, months.value,
                                                       scenario_type, amount.value, now)
               IN  /\ out' = Printed("whatif", [months |-> months.value,
                                                scenario_type |-> scenario_type,
                                                amount |-> amount.value,
                                                now |-> now,
                                                scenario_cf |-> scenario_cf])
                   /\ pc' = IF scenario_cf.kind = "raise" THEN "crashed" ELSE "menu"
    /\ UNCHANGED <<called>>
    /\ UNCHANGED menuFrame

\* choice '0', lines 489-491
Choose0 ==
    /\ pc = "menu"
    /\ choice' = "0"
    /\ out' = Printed("goodbye", 0)
    /\ pc' = "done"
    /\ UNCHANGED <<called>>
    /\ UNCHANGED menuFrame

\* any other answer, lines 493-494
InvalidChoices == {"8", "", "one"}
ChooseInvalid ==
    /\ pc = "menu"
    /\ \E c \in InvalidChoices : choice' = c
    /\ out' = Printed("invalid_choice", 0)
    /\ pc' = "menu"
    /\ UNCHANGED <<called>>
    /\ UNCHANGED menuFrame

(***************************************************************************)
(* Specification of the whole script, from the first read_csv call         *)
(***************************************************************************)
Init ==
    /\ pc = "grid"
    /\ df = NoTable
    /\ enc = 1
    /\ delim = 1
    /\ reads = <<>>
    /\ lastRead = ""
    /\ req = 1
    /\ column_mapping = {}
    /\ error = ""
    /\ monthly_cashflow = <<>>
    /\ total_savings = 0
    /\ runway = Infinity
    /\ called = {}
    /\ choice = ""
    /\ out = Nothing

Next ==
    \/ GridAttempt \/ CheckGrid \/ FallbackAttempt \/ CheckLoaded
    \/ ResolveColumn \/ Validate \/ ExitIfNoData
    \/ CallMonthly \/ CallSavings \/ CallRunway \/ EnterMenu
    \/ Choose1 \/ Choose2 \/ Choose3 \/ Choose4 \/ Choose5 \/ Choose6 \/ Choose7
    \/ Choose0 \/ ChooseInvalid

Spec == Init /\ [][Next]_vars

(***************************************************************************)
(* Specification of the analysis: the state right after a successful load  *)
(* and validation, for every ledger within the bounds                      *)
(***************************************************************************)
CanonicalColumns == <<"date", "category", "amount">>

InitValidated ==
    /\ pc = "monthly"
    /\ df \in {Table(CanonicalColumns, l) : l \in Ledgers}
    /\ enc = 1
    /\ delim = 1
    /\ reads = << <<"utf-8", ",">> >>
    /\ lastRead = "table"
    /\ req = 4
    /\ column_mapping = {}
    /\ error = ""
    /\ monthly_cashflow = <<>>
    /\ total_savings = 0
    /\ runway = Infinity
    /\ called = {}
    /\ choice = ""
    /\ out = Nothing

NextAnalysis == CallMonthly \/ CallSavings \/ CallRunway \/ EnterMenu \/ Choose7

SpecAnalysis == InitValidated /\ [][NextAnalysis]_vars

(***************************************************************************)
(* Reference quantities of the claims, taken from the ledger itself        *)
(***************************************************************************)
RECURSIVE SumOver(_, _)
SumOver(f, S) ==
    IF S = {} THEN 0
    ELSE LET i == CHOOSE j \in S : TRUE IN f[i] + SumOver(f, S \ {i})

LedgerAmounts == [i \in DOMAIN df.rows |-> df.rows[i]["amount"]]
LedgerTotal == SumOver(LedgerAmounts, DOMAIN df.rows)

LabelOf(i) == <<df.rows[i]["date"].year, df.rows[i]["date"].month>>
LedgerLabels == {LabelOf(i) : i \in DOMAIN df.rows}

IncomeOf(label) ==
    SumOver(LedgerAmounts, {i \in DOMAIN df.rows : LabelOf(i) = label /\ LedgerAmounts[i] > 0})
SpentOf(label) ==
    0 - SumOver(LedgerAmounts, {i \in DOMAIN df.rows : LabelOf(i) = label /\ LedgerAmounts[i] < 0})
\* the same two figures with every zero-amount transaction left out
NonZero == {i \in DOMAIN df.rows : LedgerAmounts[i] # 0}
IncomeOfNonZero(label) ==
    SumOver(LedgerAmounts, {i \in NonZero : LabelOf(i) = label /\ LedgerAmounts[i] > 0})
SpentOfNonZero(label) ==
    0 - SumOver(LedgerAmounts, {i \in NonZero : LabelOf(i) = label /\ LedgerAmounts[i] < 0})

LedgerCategories == {df.rows[i]["category"] : i \in DOMAIN df.rows}
TotalOf(c) == SumOver(LedgerAmounts, {i \in DOMAIN df.rows : df.rows[i]["category"] = c})

Abs(x) == IF x < 0 THEN 0 - x ELSE x

\* the ledger with its i-th and j-th transactions exchanged
Exchanged(i, j) ==
    [df EXCEPT !.rows = [k \in DOMAIN df.rows |->
                            IF k = i THEN df.rows[j] ELSE IF k = j THEN df.rows[i]
                            ELSE df.rows[k]]]

MonthlyDone == "calculate_monthly_cashflow" \in called /\ pc # "crashed"
SavingsDone == "calculate_total_savings" \in called
RunwayDone  == "calculate_emergency_runway" \in called

(***************************************************************************)
(* Claims                                                                  *)
(***************************************************************************)
\* C1: once calculate_monthly_cashflow has returned, the sum of net_cashflow
\* over all of its rows equals the sum of all transaction amounts of the
\* ledger, whatever the file order of the transactions.
C1_Conservation ==
    MonthlyDone =>
        SumSeq(Column(monthly_cashflow, "net_cashflow")) = LedgerTotal

\* C1 witness: a ledger that is not in date order, spread over two months,
\* with a negative total, has been aggregated.
C1_Witness ==
    /\ MonthlyDone
    /\ Len(monthly_cashflow) = 2
    /\ LedgerTotal < 0
    /\ \E i \in DOMAIN df.rows : i > 1 /\ DateLess(df.rows[i]["date"], df.rows[i - 1]["date"])

\* C2: calculate_monthly_cashflow returns exactly one row per distinct
\* (year, month) of the ledger; in every row income is the sum of that
\* month's positive amounts, expenses the negated sum of its negative
\* amounts, both are >= 0, net_cashflow = income - expenses, and leaving the
\* zero-amount transactions out gives the same income and expenses.
C2_MonthlyRows ==
    MonthlyDone =>
        /\ {monthly_cashflow[i].month : i \in DOMAIN monthly_cashflow} = LedgerLabels
        /\ Len(monthly_cashflow) = Cardinality(LedgerLabels)
        /\ \A i \in DOMAIN monthly_cashflow :
              LET r == monthly_cashflow[i] IN
              /\ r.income = IncomeOf(r.month)
              /\ r.expenses = SpentOf(r.month)
              /\ r.income >= 0
              /\ r.expenses >= 0
              /\ r.net_cashflow = r.income - r.expenses
              /\ r.income = IncomeOfNonZero(r.month)
              /\ r.expenses = SpentOfNonZero(r.month)

\* C2 witness: one month holds an income, an expense and a zero-amount
\* transaction, and January 2025 and February 2024 each have their row.
C2_Witness ==
    /\ MonthlyDone
    /\ Len(monthly_cashflow) = 2
    /\ \E i \in DOMAIN df.rows : LedgerAmounts[i] = 0
    /\ \E i \in DOMAIN monthly_cashflow :
          monthly_cashflow[i].income > 0 /\ monthly_cashflow[i].expenses > 0

\* C3: for a non-empty ledger calculate_total_savings returns
\* max(0, sum of all amounts): never negative, 0 when the sum is negative,
\* and, when it returns, the same as for the ledger with any two of its
\* transactions exchanged (every reordering is a sequence of exchanges, and
\* every ordering of every ledger is an initial state).
C3_TotalSavings ==
    SavingsDone =>
        /\ total_savings >= 0
        /\ LedgerTotal < 0 => total_savings = 0
        /\ LedgerTotal >= 0 => total_savings = LedgerTotal
        /\ pc = "runway" =>
              \A i, j \in DOMAIN df.rows :
                  i < j => calculate_total_savings(Exchanged(i, j)) = total_savings

\* C3 witness: savings were computed for a ledger out of date order whose
\* cumulative net is negative.
C3_Witness ==
    /\ SavingsDone
    /\ LedgerTotal < 0
    /\ total_savings = 0
    /\ \E i \in DOMAIN df.rows : i > 1 /\ DateLess(df.rows[i]["date"], df.rows[i - 1]["date"])

\* C4: calculate_emergency_runway returns +infinity exactly when the mean of
\* the monthly expenses is 0, and otherwise the finite savings / avg_expenses;
\* savings 1300 with monthly expenses 200 and 500 give 1300/350.
C4_Runway ==
    /\ RunwayDone =>
          LET spent == SumOver([l \in LedgerLabels |-> SpentOf(l)], LedgerLabels)
              avg   == Frac(spent, Cardinality(LedgerLabels))
          IN  /\ runway.inf <=> avg.num = 0
              /\ ~runway.inf =>
                    /\ runway.den > 0
                    /\ runway.num * avg.num = total_savings * avg.den * runway.den
    /\ LET r == calculate_emergency_runway(<<[expenses |-> 200], [expenses |-> 500]>>, 1300)
       IN  ~r.inf /\ FracEq(r, Frac(1300, 350))

\* C4 witness: a finite, non-zero runway has been computed.
C4_Witness ==
    /\ RunwayDone
    /\ ~runway.inf
    /\ runway.num > 0
    /\ total_savings > 0

\* C5: calculate_category_breakdown lists exactly the categories whose summed
\* amount is strictly negative, each once with the positive magnitude of its
\* total and a percentage within 0.005 of its exact share; the result is
\* empty when no category has a negative total; otherwise the percentages sum
\* to 100.00 within 0.005 per listed category.
C5_Breakdown ==
    out.kind = "breakdown" =>
        LET t     == out.val
            spend == {c \in LedgerCategories : TotalOf(c) < 0}
            all   == SumOver([c \in spend |-> 0 - TotalOf(c)], spend)
            pct   == SumSeq(Column(t, "Percentage"))
        IN  /\ {t[i].Category : i \in DOMAIN t} = spend
            /\ Len(t) = Cardinality(spend)
            /\ spend = {} => t = <<>>
            /\ \A i \in DOMAIN t :
                  /\ t[i].Amount = 0 - TotalOf(t[i].Category)
                  /\ t[i].Amount > 0
                  /\ 2 * Abs(t[i].Percentage * all - t[i].Amount * 10000) <= all
            /\ Len(t) > 0 => 2 * Abs(pct - 10000) <= Len(t)

\* C5 witness: three categories are listed and their rounded percentages
\* add up to 99.99.
C5_Witness ==
    /\ out.kind = "breakdown"
    /\ Len(out.val) = 3
    /\ SumSeq(Column(out.val, "Percentage")) = 9999

\* C6: plan_savings_goal returns its error value exactly when the target
\* date is not later than the current moment; for every target later than
\* now it returns a plan whose months_to_target is the fractional
\* (target - now) / 30.44, never 0, and whose required_monthly_savings is
\* goal_amount / months_to_target.
C6_ErrorIffNotLater ==
    out.kind = "goal" =>
        LET v      == out.val
            target == StampTexts[v.target_date]
            hours  == (Ordinal(target) - Ordinal(v.now)) * 24 + (target.hour - v.now.hour)
            plan   == v.savings_plan
        IN  /\ plan.kind \in {"error", "plan"}
            /\ plan.kind = "error" <=> hours <= 0
            /\ plan.kind = "plan" =>
                  /\ plan.months_to_target.num # 0
                  /\ FracEq(plan.months_to_target, Frac(hours * 100, 24 * DaysPerMonthX100))
                  /\ FracEq(plan.required_monthly_savings,
                            FracDiv(FracOfInt(v.goal_amount), plan.months_to_target))

\* C7: for every integer n, scenario and amount, run_what_if_scenario returns
\* a table of exactly max(n, 0) rows; every row has the scenario's adjusted
\* income and expenses, and row k has
\* cumulative_savings = k * (adjusted income - adjusted expenses).
C7_WhatIfRows ==
    out.kind = "whatif" =>
        LET v   == out.val
            r   == v.scenario_cf
            inc == Mean(monthly_cashflow, "income")
            exp == Mean(monthly_cashflow, "expenses")
            amt == FracOfInt(v.amount)
            adjIncome   == IF v.scenario_type = "both"
                           THEN FracAdd(inc, Frac(v.amount, 2)) ELSE inc
            adjExpenses == CASE v.scenario_type = "decrease_spending" -> FracSub(exp, amt)
                             [] v.scenario_type = "increase_savings" -> FracAdd(exp, amt)
                             [] v.scenario_type = "both" -> FracSub(exp, Frac(v.amount, 2))
            net == FracSub(adjIncome, adjExpenses)
        IN  /\ r.kind = "table"
            /\ Len(r.rows) = (IF v.months > 0 THEN v.months ELSE 0)
            /\ \A k \in DOMAIN r.rows :
                  /\ FracEq(r.rows[k].income, adjIncome)
                  /\ FracEq(r.rows[k].expenses, adjExpenses)
                  /\ FracEq(r.rows[k].cumulative_savings, Frac(k * net.num, net.den))

\* the required columns are present and every date and amount was parsed
ValidLedger(d) ==
    /\ d.kind = "table"
    /\ d.rows # <<>>
    /\ {"date", "category", "amount"} \subseteq Range(d.columns)
    /\ \A i \in DOMAIN d.rows :
          /\ d.rows[i]["date"] \in Range(DateTexts)
          /\ d.rows[i]["amount"] \in Range(NumberTexts)

\* C8: whenever loading or validation fails, the program reports the error
\* and terminates: df is None, the only step left is the exit, none of
\* calculate_monthly_cashflow, calculate_total_savings and
\* calculate_emergency_runway has run or ever runs, and the menu is never
\* entered; the analysis and the menu are reached only with a validated
\* ledger and no error.
C8_FailStops ==
    /\ [](error # "" =>
            /\ df = NoTable
            /\ pc \in {"check_df", "exited"}
            /\ called = {}
            /\ choice = ""
            /\ out = Nothing)
    /\ [](lastRead \in {"not_found", "other_error", "type_error"} => error # "")
    /\ [](pc \in {"monthly", "savings", "runway", "main", "menu", "done", "crashed"} =>
            error = "" /\ ValidLedger(df))
    /\ [][error # "" => (error' = error /\ pc' = "exited" /\ called' = {})]_vars

\* C8 witness: the load failed for a missing 'amount' column and the program
\* has exited without any aggregation.
C8_Witness ==
    /\ pc = "exited"
    /\ error = Report("missing_amount")
    /\ called = {}

\* C9: in main_menu every action returns to the menu prompt, whatever the
\* user answers; the process leaves the loop only when the user chooses 0.
C9_MenuNeverCrashes ==
    choice # "" =>
        /\ pc \in {"menu", "done"}
        /\ pc = "done" <=> choice = "0"

\* the claimed priority order: encodings in the outer loop, delimiters inner
GridOrder ==
    << <<"utf-8", ",">>, <<"utf-8", ";">>, <<"utf-8", "tab">>, <<"utf-8", "|">>,
       <<"latin-1", ",">>, <<"latin-1", ";">>, <<"latin-1", "tab">>, <<"latin-1", "|">>,
       <<"iso-8859-1", ",">>, <<"iso-8859-1", ";">>, <<"iso-8859-1", "tab">>,
       <<"iso-8859-1", "|">>,
       <<"cp1252", ",">>, <<"cp1252", ";">>, <<"cp1252", "tab">>, <<"cp1252", "|">> >>

LoadSucceeded ==
    pc \in {"resolve", "validate", "monthly", "savings", "runway", "main", "menu", "done"}

\* the k-th read of the grid uses the k-th combination of the fixed order
ReadsInOrder ==
    \A k \in DOMAIN reads : k <= Len(GridOrder) => reads[k] = GridOrder[k]

\* a read that yields a non-empty table is the last one: the table is kept
\* and the loader is past both loops
FirstTableAccepted ==
    lastRead = "table" =>
        /\ pc \notin {"grid", "fallback"}
        /\ pc \in {"after_grid", "loaded"} => (df.kind = "table" /\ ~IsEmpty(df))

\* a decode error, a parse error or an empty table in the grid only moves on
\* to the next combination
ErrorMovesOn ==
    (lastRead \in {"decode_error", "parse_error", "empty"} /\ Len(reads) < Len(GridOrder)) =>
        /\ pc = "grid"
        /\ error = ""
        /\ ComboAt(enc, delim) = GridOrder[Len(reads) + 1]

\* C10 as claimed: fixed order, errors move on, the first non-empty table is
\* accepted, and a load succeeds only through one of the 16 combinations:
\* when none yields a non-empty table the load fails with an error.
C10_GridOnly ==
    /\ ReadsInOrder
    /\ FirstTableAccepted
    /\ ErrorMovesOn
    /\ LoadSucceeded => Len(reads) <= Len(GridOrder)
    /\ (pc \in {"check_df", "exited"} /\ lastRead # "table") => error # ""

\* C10 amended: as claimed, except that when no combination yields a
\* non-empty table the loader makes a fallback pass, one read per encoding
\* with the default delimiter; the load succeeds only after a read (of the
\* grid or of the fallback pass) that yielded a non-empty table, and fails
\* with an error when no read did.
C10_GridThenFallback ==
    /\ ReadsInOrder
    /\ FirstTableAccepted
    /\ ErrorMovesOn
    /\ \A k \in DOMAIN reads :
          k > Len(GridOrder) => reads[k] = <<encodings[k - Len(GridOrder)], "default">>
    /\ Len(reads) <= Len(GridOrder) + Len(encodings)
    /\ LoadSucceeded => lastRead = "table"
    /\ (pc \in {"check_df", "exited"} /\ lastRead # "table") => error # ""

\* C10 witness: all 16 combinations failed, a fallback read yielded a table
\* and the load went on to the column mapping.
C10_Witness ==
    /\ pc = "resolve"
    /\ Len(reads) > Len(GridOrder)
    /\ lastRead = "table"
    /\ error = ""

\* the label of the calendar month i months after the month of `now`: the
\* label the no-change and the what-if projections give to their row i
MonthsAfterNow(now, i) == AddMonths(<<now.year, now.month>>, i)

\* C11: for a successful savings-goal plan, updated_cashflow has exactly
\* floor(months_to_target) rows; row i is labelled with the calendar month
\* i months after the current month (the label the no-change and what-if
\* projections give to their row i); every row has income = avg_income,
\* expenses = avg_expenses + required_monthly_savings and
\* net_cashflow = income - expenses; achievable is true exactly when
\* required_monthly_savings <= the historical mean net_cashflow.
C11_GoalPlanRows ==
    (out.kind = "goal" /\ out.val.savings_plan.kind = "plan") =>
        LET v    == out.val
            plan == v.savings_plan
            rows == plan.updated_cashflow
            m    == plan.months_to_target
            inc  == Mean(monthly_cashflow, "income")
            exp  == Mean(monthly_cashflow, "expenses")
            net  == Mean(monthly_cashflow, "net_cashflow")
        IN  /\ Len(rows) = m.num \div m.den
            /\ \A i \in DOMAIN rows :
                  /\ rows[i].month = MonthsAfterNow(v.now, i)
                  /\ rows[i].month = DateOffsetLabel(v.now, i)
                  /\ FracEq(rows[i].income, inc)
                  /\ FracEq(rows[i].expenses, FracAdd(exp, plan.required_monthly_savings))
                  /\ FracEq(rows[i].net_cashflow, FracSub(rows[i].income, rows[i].expenses))
            /\ plan.achievable <=> FracLeq(plan.required_monthly_savings, net)

\* the positions of the script at which the ledger has been validated
AfterValidation == {"monthly", "savings", "runway", "main", "menu"}

\* a step that leaves the ledger as it is and, taken from the menu, leaves
\* the monthly aggregate table and the figures derived from it as they are
InputsKept ==
    pc \in AfterValidation =>
        /\ df' = df
        /\ pc = "menu" => /\ monthly_cashflow' = monthly_cashflow
                          /\ total_savings' = total_savings
                          /\ runway' = runway

\* in the menu the figures are what a fresh computation from the ledger gives
FiguresRepeat ==
    pc = "menu" =>
        /\ monthly_cashflow = calculate_monthly_cashflow(df)
        /\ total_savings = calculate_total_savings(df)
        /\ runway = calculate_emergency_runway(monthly_cashflow, total_savings)

\* C12: after validation no analysis operation modifies its input:
\* calculate_monthly_cashflow, calculate_total_savings and
\* calculate_category_breakdown leave the ledger table (its rows, its
\* columns and their values) unchanged; plan_savings_goal,
\* project_future_cashflow, run_what_if_scenario and the no-change projection
\* leave the historical monthly aggregate table unchanged; so repeating a
\* menu action after any sequence of actions gives the same figures.
C12_InputsUnchanged == [][InputsKept]_vars /\ []FiguresRepeat

====
